---- MODULE Spec2Model ----
(***************************************************************************)
(* State-machine model of the NATS gateway example clients:                *)
(*   - WebSocketClient streaming sessions (websocket_client_example.py)    *)
(*   - ProtobufClient / UAT protobuf publish (protobuf_client_example.py,  *)
(*     consumer_uat.py)                                                    *)
(*   - NATSSubscriber / NATSPublisher metrics (subscriber.py, publisher.py)*)
(*                                                                         *)
(* The streaming functions keep no state field: the session state is the   *)
(* control location of the coroutine, named by pc and mapped to the        *)
(* lifecycle states by StateOf.                                            *)
(***************************************************************************)
EXTENDS Integers, Sequences, FiniteSets, TLC

\* ------------------------------------------------------------------ bounds
MaxSessions == 2      \* calls of a streaming function on one client object
MaxFrames == 3        \* receive outcomes observed within one session
MaxN == 2             \* largest max_messages argument tried
MaxSeq == 3           \* largest stream sequence number on the wire
MaxTime == 2          \* clock ticks after construction
MaxWork == 3          \* handler invocations / publish attempts in one run
MaxLatency == 2       \* largest latency of one message, in ms
MaxAckSeq == 2        \* largest sequence number in a publish ack
MaxAckTs == 1         \* largest timestamp (seconds) in a publish ack
MaxAttempts == 2      \* the attempts limit against which the publish loop is tried
MaxSize == 1          \* largest size_bytes and largest data length of a stream message

MaxPublishCount == 2   \* largest PUBLISH_COUNT of a run of the UAT flow

\* --------------------------------------------------------- session variables
VARIABLES
  sid,            \* index of the session (function call) in progress, 0 = none yet
  pc,             \* pc[i]: control location of session i
  fn,             \* streaming function of the current session
  max_messages,   \* its max_messages argument (0 for stream_with_timeout: unused)
  message_count,  \* local message_count of the current session
  handshake,      \* outcome of websockets.connect for the current session
  frames,         \* receive outcomes of the current session, in order (history)
  delivered,      \* MESSAGE frames processed by the current session, in order
  out,            \* lines printed by the current session, in order
  elapsed         \* stream_with_timeout: clock ticks since start_time was taken

sessionVars ==
  <<sid, pc, fn, max_messages, message_count, handshake, frames, delivered, out, elapsed>>

\* ------------------------------------------- publisher / subscriber variables
VARIABLES
  proc,                  \* the program this process runs: "publisher" or "subscriber"
  now,                   \* time.time(), in clock ticks
  start_time,            \* self.start_time
  sub_message_count,     \* NATSSubscriber.message_count
  sub_error_count,       \* NATSSubscriber.error_count
  sub_total_latency_ms,  \* NATSSubscriber.total_latency_ms
  sub_pc,                \* control location of each task of the subscriber
  sub_msg,               \* the message the handler is working on
  pub_message_count,     \* NATSPublisher.message_count
  pub_error_count,       \* NATSPublisher.error_count
  pub_pc,                \* control location of the publisher's run task
  pub_last,              \* how the last call of publish_message ended
  pub_streak,            \* failed calls of publish_message in a row (history)
  pub_sent,              \* message_id and sequence of every payload built, in order (history)
  snap,                  \* the last record written by log_metrics
  issued,                \* message_count increments begun so far (history)
  issued_err             \* error_count increments owed by the work begun so far (history)

metricsVars ==
  <<proc, now, start_time, sub_message_count, sub_error_count, sub_total_latency_ms, sub_pc,
    sub_msg, pub_message_count, pub_error_count, pub_pc, pub_last, pub_streak, pub_sent, snap, issued,
    issued_err>>

\* ------------------------------------------------- protobuf publish variables
VARIABLES
  ack_op,    \* the publishing function being run
  ack_pc,    \* its control location
  ack_resp,  \* the HTTP response it received
  ack_out,   \* the lines it printed
  ack_ret    \* what it returned to its caller

ackVars == <<ack_op, ack_pc, ack_resp, ack_out, ack_ret>>

\* ------------------------------------------------------- frame codec variables
VARIABLES
  codec_pc,        \* "off", "frame", "wire", "decoded", "dispatched"
  codec_in,        \* the StreamFrame the sender serializes
  codec_wire,      \* the bytes of one websocket message
  codec_out,       \* what ParseFromString made of them
  codec_handler,   \* the handler the receive loop called for the frame
  codec_count,     \* message_count after the frame, counted from 0
  codec_lines      \* what the handler printed

codecVars ==
  <<codec_pc, codec_in, codec_wire, codec_out, codec_handler, codec_count, codec_lines>>

\* ------------------------------------------------------ consumer UAT variables
VARIABLES
  uat_pc,          \* "off", "running", "complete", "exit_1" (sys.exit(1)) or "raised"
  uat_ran,         \* names of the steps whose function was called, in order (history)
  uat_idx,         \* requests made by the loop of step_publish_messages
  STEP_RESULTS,    \* names of the StepResult records appended by run_step
  PUBLISH_COUNT,   \* GATEWAY_PUBLISH_COUNT
  uat_log,         \* what write_log wrote to LOG_PATH, or "none"
  uat_status,      \* the status code printed for the last answered request, or "none"
  uat_consumer     \* the server holds the durable consumer CONSUMER_NAME

uatVars ==
  <<uat_pc, uat_ran, uat_idx, STEP_RESULTS, PUBLISH_COUNT, uat_log, uat_status, uat_consumer>>

vars == <<sessionVars, metricsVars, ackVars, codecVars, uatVars>>

Sessions == 1..MaxSessions

Functions == {"ephemeral", "durable", "timeout"}

\* ---------------------------------------------------------------- wire data
ControlTypes == {"ERROR", "SUBSCRIBE_ACK", "CLOSE", "KEEPALIVE"}

ControlTexts == {"t1"}

ControlFrames == [kind : {"CONTROL"}, type : ControlTypes, message : ControlTexts]

MessageFrames == [kind : {"MESSAGE"}, subject : {"events.test"}, sequence : 1..MaxSeq]

\* a frame whose type field is neither CONTROL nor MESSAGE
OtherFrames == {[kind |-> "OTHER"]}

Frames == ControlFrames \cup MessageFrames \cup OtherFrames

\* what one `await websocket.recv()` followed by ParseFromString can produce
RecvOutcomesTimeoutEverywhere(f) ==
  [tag : {"frame"}, frame : Frames]
    \cup {[tag |-> "DecodeError"]}
    \cup [tag : {"ConnectionClosed"}, graceful : BOOLEAN]
    \cup {[tag |-> "TimeoutError"]}
    \cup {[tag |-> "CancelledError"]}
RecvOutcomes(f) ==
  [tag : {"frame"}, frame : Frames]
    \cup {[tag |-> "DecodeError"]}
    \cup [tag : {"ConnectionClosed"}, graceful : BOOLEAN]
    \cup (IF f = "timeout" THEN {[tag |-> "TimeoutError"]} ELSE {})
    \cup {[tag |-> "CancelledError"]}

\* what `websockets.connect(ws_url)` can produce
ConnectOutcomes == {"ok", "InvalidStatusCode", "Exception"}

\* ------------------------------------------------------- lifecycle mapping
StateOf(p) ==
  CASE p = "idle" -> "IDLE"
    [] p = "connecting" -> "CONNECTING"
    [] p \in {"loop_head", "recv"} -> "STREAMING"
    [] p = "draining" -> "DRAINING"
    [] p = "closed" -> "CLOSED"
    [] p = "errored" -> "ERRORED"

State(i) == StateOf(pc[i])

\* ------------------------------------------------------------ the functions
\* _handle_control_message: one printed line, nothing else
HandleControlMessage(control) ==
  [ev |-> "control",
   icon |-> CASE control.type = "ERROR" -> "x"
              [] control.type = "SUBSCRIBE_ACK" -> "ok"
              [] control.type = "CLOSE" -> "ok"
              [] control.type = "KEEPALIVE" -> "heart",
   type_name |-> control.type,
   message |-> control.message]

\* _handle_stream_message / the inline print of stream_with_timeout
HandleStreamMessage(f, message, n) ==
  IF f = "timeout"
  THEN [ev |-> "message_line", n |-> n, subject |-> message.subject, sequence |-> message.sequence]
  ELSE [ev |-> "message", subject |-> message.subject, sequence |-> message.sequence]

\* `while message_count < max_messages` / `while True`
LoopCondOffByOne(f, count, max) == f = "timeout" \/ count <= max
LoopCond(f, count, max) == f = "timeout" \/ count < max

\* the increment after a MESSAGE frame; CONTROL and other frames leave the count
CountAfterAllFrames(frame, count) == IF frame.kind \in {"MESSAGE", "CONTROL"} THEN count + 1 ELSE count
CountAfter(frame, count) == IF frame.kind = "MESSAGE" THEN count + 1 ELSE count

\* a MESSAGE frame is handled as soon as it is parsed: there is no queue in between
DeliverNextFront(d, frame) == <<frame>> \o d
DeliverNext(d, frame) == Append(d, frame)

\* the line printed when the receive loop is left normally
EndLine(f, n) ==
  IF f = "timeout" THEN [ev |-> "stream_ended", n |-> n] ELSE [ev |-> "received", n |-> n]

\* where a receive outcome other than a parsed frame leaves the coroutine
AfterTimeoutErrorContinue == "loop_head"
AfterTimeoutError == "draining"

AfterConnectionClosed == "draining"

AfterDecodeError == "errored"

\* after a parsed frame the loop goes back to its test: the sequence number of a
\* message is printed and compared with nothing
AfterFrameStrictSequence(d, frame) ==
  IF frame.kind = "MESSAGE" /\ Len(d) > 0 /\ frame.sequence # d[Len(d)].sequence + 1
  THEN "errored" ELSE "loop_head"
AfterFrame(d, frame) == "loop_head"

\* the caller cancels the task while recv() is awaited: CancelledError is raised at the
\* await. It is a BaseException, so neither `except ConnectionClosed` nor the outer
\* `except Exception` catches it; it leaves through the `async with` block, which
\* closes the websocket, and then leaves the function
AfterCancelledErrorSwallowed == "loop_head"
AfterCancelledError == "draining"

\* lines printed by the except clauses around websockets.connect
ConnectFailureLinesNoHint(f, exc) == <<[ev |-> "error", exc |-> exc]>>
ConnectFailureLines(f, exc) ==
  IF f = "durable" /\ exc = "InvalidStatusCode"
  THEN <<[ev |-> "error", exc |-> exc], [ev |-> "hint_consumer_missing"]>>
  ELSE <<[ev |-> "error", exc |-> exc]>>

\* every call opens a websocket of its own: the session index of the next call
NextSessionReuse(s) == IF s = 0 THEN 1 ELSE s
NextSession(s) == s + 1

\* the timeout_seconds argument of stream_with_timeout, in clock ticks
TimeoutTicks == 2

\* how long one `await asyncio.wait_for(websocket.recv(), timeout=timeout_seconds)` lasts:
\* the whole timeout when it expires, less than that when recv() ends first; each call
\* of wait_for starts a wait of its own. The other two functions read no clock.
Waits(f, o) ==
  CASE f # "timeout" -> {0}
    [] o.tag = "TimeoutError" -> {TimeoutTicks}
    [] OTHER -> 0..(TimeoutTicks - 1)

\* datetime.now() - start_time after a wait; past the timeout the clock is not told apart
ElapsedAfter(e, w) == IF e + w > TimeoutTicks THEN TimeoutTicks + 1 ELSE e + w

\* ----------------------------------------------------------------- actions
SessionInit ==
  /\ sid = 0
  /\ pc = [i \in Sessions |-> "idle"]
  /\ fn = "none"
  /\ max_messages = 0
  /\ message_count = 0
  /\ handshake = "none"
  /\ frames = <<>>
  /\ delivered = <<>>
  /\ out = <<>>
  /\ elapsed = 0

\* a caller awaits one of the three streaming functions
Call(f, n) ==
  /\ sid < MaxSessions
  /\ IF sid = 0 THEN TRUE ELSE pc[sid] \in {"closed", "errored"}
  /\ sid' = NextSession(sid)
  /\ pc' = [pc EXCEPT ![NextSession(sid)] = "connecting"]
  /\ fn' = f
  /\ max_messages' = IF f = "timeout" THEN 0 ELSE n
  /\ message_count' = 0
  /\ handshake' = "none"
  /\ frames' = <<>>
  /\ delivered' = <<>>
  /\ out' = <<[ev |-> "connecting", fn |-> f]>>
  /\ elapsed' = 0
  /\ UNCHANGED <<metricsVars, ackVars, codecVars, uatVars>>

\* `async with websockets.connect(ws_url) as websocket:`
Connect(o) ==
  /\ sid > 0 /\ pc[sid] = "connecting"
  /\ handshake' = o
  /\ IF o = "ok"
     THEN /\ pc' = [pc EXCEPT ![sid] = "loop_head"]
          /\ out' = Append(out, [ev |-> "connected"])
     ELSE /\ pc' = [pc EXCEPT ![sid] = "errored"]
          /\ out' = out \o ConnectFailureLines(fn, o)
  /\ UNCHANGED <<sid, fn, max_messages, message_count, frames, delivered, elapsed>>
  /\ UNCHANGED <<metricsVars, ackVars, codecVars, uatVars>>

\* the loop test
LoopHead ==
  /\ sid > 0 /\ pc[sid] = "loop_head"
  /\ IF LoopCond(fn, message_count, max_messages)
     THEN /\ pc' = [pc EXCEPT ![sid] = "recv"]
          /\ out' = out
     ELSE /\ pc' = [pc EXCEPT ![sid] = "draining"]
          /\ out' = Append(out, EndLine(fn, message_count))
  /\ UNCHANGED <<sid, fn, max_messages, message_count, handshake, frames, delivered, elapsed>>
  /\ UNCHANGED <<metricsVars, ackVars, codecVars, uatVars>>

\* `await websocket.recv()`, ParseFromString and the dispatch on frame.type
Recv(o) ==
  /\ sid > 0 /\ pc[sid] = "recv"
  /\ Len(frames) < MaxFrames
  /\ frames' = Append(frames, o)
  /\ CASE o.tag = "frame" ->
            /\ pc' = [pc EXCEPT ![sid] = AfterFrame(delivered, o.frame)]
            /\ message_count' = CountAfter(o.frame, message_count)
            /\ delivered' = IF o.frame.kind = "MESSAGE" THEN DeliverNext(delivered, o.frame) ELSE delivered
            /\ out' = CASE o.frame.kind = "CONTROL" -> Append(out, HandleControlMessage(o.frame))
                        [] o.frame.kind = "MESSAGE" ->
                             Append(out, HandleStreamMessage(fn, o.frame, message_count + 1))
                        [] OTHER -> out
       [] o.tag = "DecodeError" ->
            /\ pc' = [pc EXCEPT ![sid] = AfterDecodeError]
            /\ out' = Append(out, [ev |-> "error", exc |-> "DecodeError"])
            /\ UNCHANGED <<message_count, delivered>>
       [] o.tag = "ConnectionClosed" ->
            /\ pc' = [pc EXCEPT ![sid] = AfterConnectionClosed]
            /\ out' = out \o <<[ev |-> "connection_closed", graceful |-> o.graceful],
                               EndLine(fn, message_count)>>
            /\ UNCHANGED <<message_count, delivered>>
       [] o.tag = "CancelledError" ->
            /\ pc' = [pc EXCEPT ![sid] = AfterCancelledError]
            /\ UNCHANGED <<message_count, delivered, out>>
       [] o.tag = "TimeoutError" ->
            /\ pc' = [pc EXCEPT ![sid] = AfterTimeoutError]
            /\ out' = out \o <<[ev |-> "timeout_reached"],
                               EndLine(fn, message_count)>>
            /\ UNCHANGED <<message_count, delivered>>
  /\ \E w \in Waits(fn, o) : elapsed' = ElapsedAfter(elapsed, w)
  /\ UNCHANGED <<sid, fn, max_messages, handshake>>
  /\ UNCHANGED <<metricsVars, ackVars, codecVars, uatVars>>

\* leaving the `async with` block: the websocket is closed, the function returns
Drain ==
  /\ sid > 0 /\ pc[sid] = "draining"
  /\ pc' = [pc EXCEPT ![sid] = "closed"]
  /\ UNCHANGED <<sid, fn, max_messages, message_count, handshake, frames, delivered, out,
                 elapsed>>
  /\ UNCHANGED <<metricsVars, ackVars, codecVars, uatVars>>

SessionNext ==
  \/ \E f \in Functions, n \in 0..MaxN : Call(f, n)
  \/ \E o \in ConnectOutcomes : Connect(o)
  \/ LoopHead
  \/ \E o \in RecvOutcomes(fn) : Recv(o)
  \/ Drain

\* =================================================== publisher and subscriber
MetricsEvery == 50

SubTasks == {"handler", "metrics", "run"}

\* a delivered message: what its payload does to the handler, and its latency
Msgs ==
  [payload : {"ok", "late_exception"}, latency_ms : 0..MaxLatency]
    \cup [payload : {"JSONDecodeError", "early_exception"}, latency_ms : {0}]

NoMsg == [payload |-> "none", latency_ms |-> 0]

\* how `await asyncio.wait_for(self.nc.publish(...), timeout=5.0)` ends: it returns, the
\* wait expires (asyncio.TimeoutError), or nc.publish raises
PublishOutcomes ==
  {"ok", "asyncio.TimeoutError", "nats.errors.TimeoutError", "ConnectionClosedError", "Exception"}

\* the except clause of publish_message that handles an outcome. TimeoutError is the
\* name imported from nats.errors, a subclass of asyncio.TimeoutError: the clause does
\* not match the base-class instance raised by wait_for
ExceptClause(o) ==
  CASE o = "ok" -> "none"
    [] o = "nats.errors.TimeoutError" -> "TimeoutError"
    [] o = "ConnectionClosedError" -> "ConnectionClosedError"
    [] OTHER -> "Exception"

\* the log record of publish_message, by the clause taken
PublishLine(clause) ==
  CASE clause = "none" -> "Message published"
    [] clause = "TimeoutError" -> "Publish timeout"
    [] clause = "ConnectionClosedError" -> "NATS connection closed"
    [] OTHER -> "Publish error"

\* how publish_message ends for its caller: only the ConnectionClosedError clause re-raises
PublishResult(clause) == IF clause = "ConnectionClosedError" THEN "raised" ELSE "returned"

\* `self.error_count += 1` is the first statement of each except clause
ErrorCountAfterExceptionOnly(clause, errors) == IF clause = "Exception" THEN errors + 1 ELSE errors
ErrorCountAfter(clause, errors) == IF clause = "none" THEN errors ELSE errors + 1

\* str(n): the decimal digits of n
RECURSIVE Digits(_)
Digits(n) == IF n < 10 THEN <<n>> ELSE Append(Digits(n \div 10), n % 10)

Hostname == "publisher"

\* f"{self.hostname}-{self.message_count}"
MessageIdHostnameOnly(hostname, count) == <<hostname>>
MessageId(hostname, count) == <<hostname, "-">> \o Digits(count)

\* the message_id and sequence fields of the payload built by publish_message
MessageData(hostname, count) ==
  [message_id |-> MessageId(hostname, count), source |-> hostname, sequence |-> count]

PublishEnd(o) ==
  [outcome |-> o, line |-> PublishLine(ExceptClause(o)), result |-> PublishResult(ExceptClause(o))]

NoPublish == [outcome |-> "none", line |-> "none", result |-> "none"]

\* where publish_loop goes when publish_message has ended
LoopAfterPublishGiveUp(end) ==
  IF end.result = "returned" THEN "sleep_interval" ELSE "raised"
LoopAfterPublish(end) ==
  CASE end.result = "returned" -> "sleep_interval"
    [] end.outcome = "ConnectionClosedError" -> "sleep_reconnect"
    [] OTHER -> "sleep_unexpected"

\* Python's a / b, kept to two decimals (value * 100); b = 0 raises ZeroDivisionError
PyDiv(a, b) ==
  IF b = 0 THEN [raised |-> TRUE, v |-> 0] ELSE [raised |-> FALSE, v |-> (a * 100) \div b]

Zero == [raised |-> FALSE, v |-> 0]

\* messages_per_sec = self.message_count / uptime if uptime > 0 else 0
MessagesPerSecUnguarded(count, uptime) == PyDiv(count, uptime)
MessagesPerSec(count, uptime) == IF uptime > 0 THEN PyDiv(count, uptime) ELSE Zero

\* avg_latency = self.total_latency_ms / self.message_count if self.message_count > 0 else 0
AvgLatencyUnguarded(total, count) == PyDiv(total, count)
AvgLatency(total, count) == IF count > 0 THEN PyDiv(total, count) ELSE Zero

\* (self.error_count / self.message_count * 100) if self.message_count > 0 else 0
ErrorRateUnguarded(errors, count) == PyDiv(errors * 100, count)
ErrorRate(errors, count) == IF count > 0 THEN PyDiv(errors * 100, count) ELSE Zero

\* NATSSubscriber.log_metrics
SubLogMetrics(count, errors, total, uptime) ==
  LET mps == MessagesPerSec(count, uptime)
      avg == AvgLatency(total, count)
      rate == ErrorRate(errors, count)
  IN [who |-> "subscriber",
      raised |-> mps.raised \/ avg.raised \/ rate.raised,
      total_messages |-> count,
      total_errors |-> errors,
      uptime_seconds |-> uptime,
      messages_per_second |-> mps.v,
      average_latency_ms |-> avg.v,
      error_rate |-> rate.v]

\* NATSPublisher.log_metrics (no latency field)
PubLogMetrics(count, errors, uptime) ==
  LET mps == MessagesPerSec(count, uptime)
      rate == ErrorRate(errors, count)
  IN [who |-> "publisher",
      raised |-> mps.raised \/ rate.raised,
      total_messages |-> count,
      total_errors |-> errors,
      uptime_seconds |-> uptime,
      messages_per_second |-> mps.v,
      average_latency_ms |-> 0,
      error_rate |-> rate.v]

NoSnap == [who |-> "none"]

\* a record of log_metrics together with the increments begun when it was taken
Snapshot(log) == [who |-> log.who, log |-> log, issued |-> issued, issued_err |-> issued_err]

\* asyncio runs a task until it awaits: these are the locations where a task of the
\* subscriber is suspended in an await (message_handler contains none)
IsAwaitPointAnywhere(p) == TRUE
IsAwaitPoint(p) == p \in {"wait", "sleep", "sleep_1", "drain", "nc_close", "done", "cancelled"}

\* task t may take a step: no other task of the event loop is between two awaits
SubCanRun(t) == \A u \in SubTasks \ {t} : IsAwaitPoint(sub_pc[u])

\* counters a run may start from: a fresh object, or one two messages short of the
\* next `% 50` metrics line (reached by error-free work of latency zero)
StartCounts == {0, MetricsEvery - 2}

MetricsOff ==
  /\ proc = "none"
  /\ now = 0 /\ start_time = 0
  /\ sub_message_count = 0 /\ sub_error_count = 0 /\ sub_total_latency_ms = 0
  /\ sub_pc = [t \in SubTasks |-> "off"]
  /\ sub_msg = NoMsg
  /\ pub_message_count = 0 /\ pub_error_count = 0
  /\ pub_pc = "off"
  /\ pub_last = NoPublish /\ pub_streak = 0 /\ pub_sent = <<>>
  /\ snap = NoSnap
  /\ issued = 0 /\ issued_err = 0

MetricsInit ==
  /\ proc \in {"publisher", "subscriber"}
  /\ now = 0 /\ start_time = 0
  /\ \E c \in StartCounts :
       /\ sub_message_count = (IF proc = "subscriber" THEN c ELSE 0)
       /\ pub_message_count = (IF proc = "publisher" THEN c ELSE 0)
       /\ issued = c
  /\ sub_error_count = 0 /\ sub_total_latency_ms = 0
  /\ sub_pc = [t \in SubTasks |->
                 IF proc # "subscriber" THEN "off"
                 ELSE CASE t = "handler" -> "wait" [] t = "metrics" -> "sleep" [] t = "run" -> "sleep_1"]
  /\ sub_msg = NoMsg
  /\ pub_error_count = 0
  /\ pub_pc = IF proc = "publisher" THEN "loop" ELSE "off"
  /\ pub_last = NoPublish /\ pub_streak = 0 /\ pub_sent = <<>>
  /\ snap = NoSnap
  /\ issued_err = 0

\* the wall clock advances
Tick ==
  /\ proc # "none"
  /\ now < MaxTime
  /\ now' = now + 1
  /\ UNCHANGED <<proc, start_time, sub_message_count, sub_error_count, sub_total_latency_ms,
                 sub_pc, sub_msg, pub_message_count, pub_error_count, pub_pc, pub_last, pub_streak, pub_sent, snap, issued,
                 issued_err>>
  /\ UNCHANGED <<sessionVars, ackVars, codecVars, uatVars>>

\* ------------------------------------------------------------- NATSSubscriber
\* message_handler, up to the try: the subscription hands over the next message
SubDeliver(m) ==
  /\ sub_pc["handler"] = "wait" /\ SubCanRun("handler")
  /\ issued < MaxWork \/ (issued >= MetricsEvery - 2 /\ issued < MetricsEvery - 2 + MaxWork)
  /\ sub_message_count' = sub_message_count + 1
  /\ sub_msg' = m
  /\ sub_pc' = [sub_pc EXCEPT !["handler"] = "try"]
  /\ issued' = issued + 1
  /\ issued_err' = issued_err + (IF m.payload = "ok" THEN 0 ELSE 1)
  /\ UNCHANGED <<proc, now, start_time, sub_error_count, sub_total_latency_ms,
                 pub_message_count, pub_error_count, pub_pc, pub_last, pub_streak, pub_sent, snap>>
  /\ UNCHANGED <<sessionVars, ackVars, codecVars, uatVars>>

\* message_handler, the body of the try
SubProcess ==
  /\ sub_pc["handler"] = "try" /\ SubCanRun("handler")
  /\ sub_total_latency_ms' =
       IF sub_msg.payload \in {"ok", "late_exception"}
       THEN sub_total_latency_ms + sub_msg.latency_ms
       ELSE sub_total_latency_ms
  /\ IF sub_msg.payload = "ok"
     THEN /\ sub_pc' = [sub_pc EXCEPT !["handler"] = "wait"]
          /\ sub_msg' = NoMsg
          /\ snap' = IF sub_message_count % MetricsEvery = 0
                     THEN Snapshot(SubLogMetrics(sub_message_count, sub_error_count,
                                                 sub_total_latency_ms', now - start_time))
                     ELSE snap
     ELSE /\ sub_pc' = [sub_pc EXCEPT !["handler"] = "except"]
          /\ UNCHANGED <<sub_msg, snap>>
  /\ UNCHANGED <<proc, now, start_time, sub_message_count, sub_error_count,
                 pub_message_count, pub_error_count, pub_pc, pub_last, pub_streak, pub_sent, issued, issued_err>>
  /\ UNCHANGED <<sessionVars, ackVars, codecVars, uatVars>>

\* message_handler, either except clause
SubExcept ==
  /\ sub_pc["handler"] = "except" /\ SubCanRun("handler")
  /\ sub_error_count' = sub_error_count + 1
  /\ sub_pc' = [sub_pc EXCEPT !["handler"] = "wait"]
  /\ sub_msg' = NoMsg
  /\ UNCHANGED <<proc, now, start_time, sub_message_count, sub_total_latency_ms,
                 pub_message_count, pub_error_count, pub_pc, pub_last, pub_streak, pub_sent, snap, issued, issued_err>>
  /\ UNCHANGED <<sessionVars, ackVars, codecVars, uatVars>>

\* metrics_loop: the sleep is over, log_metrics runs, the task sleeps again
SubMetricsTick ==
  /\ sub_pc["metrics"] = "sleep" /\ SubCanRun("metrics")
  /\ snap' = Snapshot(SubLogMetrics(sub_message_count, sub_error_count, sub_total_latency_ms,
                                    now - start_time))
  /\ UNCHANGED <<proc, now, start_time, sub_message_count, sub_error_count,
                 sub_total_latency_ms, sub_pc, sub_msg, pub_message_count, pub_error_count,
                 pub_pc, pub_last, pub_streak, pub_sent, issued, issued_err>>
  /\ UNCHANGED <<sessionVars, ackVars, codecVars, uatVars>>

\* run: the interrupt ends the sleep loop; finally cancels the metrics task and close()
\* logs the metrics before it awaits nc.drain()
SubInterrupt ==
  /\ sub_pc["run"] = "sleep_1" /\ SubCanRun("run")
  /\ sub_pc' = [sub_pc EXCEPT !["run"] = "drain", !["metrics"] = "cancelled"]
  /\ snap' = Snapshot(SubLogMetrics(sub_message_count, sub_error_count, sub_total_latency_ms,
                                    now - start_time))
  /\ UNCHANGED <<proc, now, start_time, sub_message_count, sub_error_count,
                 sub_total_latency_ms, sub_msg, pub_message_count, pub_error_count, pub_pc, pub_last, pub_streak, pub_sent,
                 issued, issued_err>>
  /\ UNCHANGED <<sessionVars, ackVars, codecVars, uatVars>>

\* close: `await self.nc.drain()` returns or raises
SubDrain(ok) ==
  /\ sub_pc["run"] = "drain" /\ SubCanRun("run")
  /\ sub_pc["handler"] = "wait"
  /\ sub_pc' = [sub_pc EXCEPT !["run"] = IF ok THEN "nc_close" ELSE "raised",
                              !["handler"] = "done"]
  /\ UNCHANGED <<proc, now, start_time, sub_message_count, sub_error_count,
                 sub_total_latency_ms, sub_msg, pub_message_count, pub_error_count, pub_pc, pub_last, pub_streak, pub_sent,
                 snap, issued, issued_err>>
  /\ UNCHANGED <<sessionVars, ackVars, codecVars, uatVars>>

\* close: `await self.nc.close()` returns or raises
SubNcClose(ok) ==
  /\ sub_pc["run"] = "nc_close" /\ SubCanRun("run")
  /\ sub_pc' = [sub_pc EXCEPT !["run"] = IF ok THEN "closed" ELSE "raised"]
  /\ UNCHANGED <<proc, now, start_time, sub_message_count, sub_error_count,
                 sub_total_latency_ms, sub_msg, pub_message_count, pub_error_count, pub_pc, pub_last, pub_streak, pub_sent,
                 snap, issued, issued_err>>
  /\ UNCHANGED <<sessionVars, ackVars, codecVars, uatVars>>

SubNext ==
  \/ \E m \in Msgs : SubDeliver(m)
  \/ SubProcess
  \/ SubExcept
  \/ SubMetricsTick
  \/ SubInterrupt
  \/ \E ok \in BOOLEAN : SubDrain(ok)
  \/ \E ok \in BOOLEAN : SubNcClose(ok)

\* -------------------------------------------------------------- NATSPublisher
pubUnchangedSub ==
  UNCHANGED <<proc, now, start_time, sub_message_count, sub_error_count, sub_total_latency_ms,
              sub_pc, sub_msg>>

\* publish_loop calls publish_message: the count is raised, the payload built, and
\* the coroutine awaits nc.publish under wait_for
PubStart ==
  /\ pub_pc = "loop"
  /\ issued < MaxWork \/ (issued >= MetricsEvery - 2 /\ issued < MetricsEvery - 2 + MaxWork)
  /\ pub_message_count' = pub_message_count + 1
  /\ issued' = issued + 1
  /\ pub_pc' = "await_publish"
  /\ pubUnchangedSub
  /\ pub_sent' = Append(pub_sent, MessageData(Hostname, pub_message_count + 1))
  /\ UNCHANGED <<pub_error_count, pub_last, pub_streak, snap, issued_err>>
  /\ UNCHANGED <<sessionVars, ackVars, codecVars, uatVars>>

\* the await ends: published, or one of the except clauses of publish_message; then
\* publish_loop sleeps for the interval or, in one of its own except clauses, for the
\* error wait
PubFinish(o) ==
  /\ pub_pc = "await_publish"
  /\ pub_error_count' = ErrorCountAfter(ExceptClause(o), pub_error_count)
  /\ issued_err' = IF o = "ok" THEN issued_err ELSE issued_err + 1
  /\ pub_last' = PublishEnd(o)
  /\ pub_streak' = IF o = "ok" THEN 0 ELSE pub_streak + 1
  /\ pub_pc' = LoopAfterPublish(PublishEnd(o))
  /\ pubUnchangedSub
  /\ UNCHANGED <<pub_message_count, pub_sent, snap, issued>>
  /\ UNCHANGED <<sessionVars, ackVars, codecVars, uatVars>>

\* publish_loop after `await asyncio.sleep(self.publish_interval)`
PubAfterInterval ==
  /\ pub_pc = "sleep_interval"
  /\ snap' = IF pub_message_count % MetricsEvery = 0
             THEN Snapshot(PubLogMetrics(pub_message_count, pub_error_count, now - start_time))
             ELSE snap
  /\ pub_pc' = "loop"
  /\ pubUnchangedSub
  /\ UNCHANGED <<pub_message_count, pub_error_count, pub_last, pub_streak, pub_sent, issued, issued_err>>
  /\ UNCHANGED <<sessionVars, ackVars, codecVars, uatVars>>

\* publish_loop after `await asyncio.sleep(5)` in its ConnectionClosedError clause, or
\* after `await asyncio.sleep(1)` in its Exception clause
PubAfterReconnectWait ==
  /\ pub_pc \in {"sleep_reconnect", "sleep_unexpected"}
  /\ pub_pc' = "loop"
  /\ pubUnchangedSub
  /\ UNCHANGED <<pub_message_count, pub_error_count, pub_last, pub_streak, pub_sent, snap, issued, issued_err>>
  /\ UNCHANGED <<sessionVars, ackVars, codecVars, uatVars>>

\* run: the loop is interrupted; finally runs close(), which logs the metrics before
\* it awaits nc.drain()
PubInterrupt ==
  /\ pub_pc \in {"loop", "await_publish", "sleep_interval", "sleep_reconnect", "sleep_unexpected"}
  /\ snap' = Snapshot(PubLogMetrics(pub_message_count, pub_error_count, now - start_time))
  /\ pub_pc' = "drain"
  /\ pubUnchangedSub
  /\ UNCHANGED <<pub_message_count, pub_error_count, pub_last, pub_streak, pub_sent, issued, issued_err>>
  /\ UNCHANGED <<sessionVars, ackVars, codecVars, uatVars>>

\* close: `await self.nc.drain()` returns or raises
PubDrain(ok) ==
  /\ pub_pc = "drain"
  /\ pub_pc' = IF ok THEN "nc_close" ELSE "raised"
  /\ pubUnchangedSub
  /\ UNCHANGED <<pub_message_count, pub_error_count, pub_last, pub_streak, pub_sent, snap, issued, issued_err>>
  /\ UNCHANGED <<sessionVars, ackVars, codecVars, uatVars>>

\* close: `await self.nc.close()` returns or raises
PubNcClose(ok) ==
  /\ pub_pc = "nc_close"
  /\ pub_pc' = IF ok THEN "closed" ELSE "raised"
  /\ pubUnchangedSub
  /\ UNCHANGED <<pub_message_count, pub_error_count, pub_last, pub_streak, pub_sent, snap, issued, issued_err>>
  /\ UNCHANGED <<sessionVars, ackVars, codecVars, uatVars>>

PubNext ==
  \/ PubStart
  \/ \E o \in PublishOutcomes : PubFinish(o)
  \/ PubAfterInterval
  \/ PubAfterReconnectWait
  \/ PubInterrupt
  \/ \E ok \in BOOLEAN : PubDrain(ok)
  \/ \E ok \in BOOLEAN : PubNcClose(ok)

MetricsNext == Tick \/ SubNext \/ PubNext

\* ======================================================== protobuf publishing
PublishOps ==
  {"publish_generic_message", "publish_user_event", "publish_payment_event",
   "step_publish_protobuf_message"}

AckTimestamps == {[has |-> FALSE, seconds |-> 0]} \cup [has : {TRUE}, seconds : 1..MaxAckTs]

\* a response body that ParseFromString accepts as a PublishAck
PublishAcks ==
  [wf : {TRUE}, published : BOOLEAN, subject : {"events.test"}, stream : {"", "EVENTS"},
   sequence : 0..MaxAckSeq, timestamp : AckTimestamps]

\* a response body that ParseFromString rejects
Undecodable == [wf |-> FALSE]

\* what the POST can come back with
HttpResponses ==
  {[tag |-> "ConnectionError"]}
    \cup {[tag |-> "http", status |-> 500, body |-> Undecodable]}
    \cup [tag : {"http"}, status : {200}, body : PublishAcks \cup {Undecodable}]

\* ack.timestamp.ToDatetime().isoformat() if ack.HasField("timestamp") else None
IsoOrNone(ts) == IF ts.has THEN [fmt |-> "iso", seconds |-> ts.seconds] ELSE [fmt |-> "None"]

\* ack_dict of step_publish_protobuf_message
AckDict(ack) ==
  [published |-> ack.published, subject |-> ack.subject, stream |-> ack.stream,
   sequence |-> ack.sequence, timestamp |-> IsoOrNone(ack.timestamp)]

\* what the function prints once the ack is parsed
AckLines(op, ack) ==
  IF op = "step_publish_protobuf_message"
  THEN <<[ev |-> "json", value |-> AckDict(ack)]>>
  ELSE <<[ev |-> "published_successfully", stream |-> ack.stream, sequence |-> ack.sequence]>>

\* what the function returns once the ack is parsed
AckReturn(op, ack) ==
  IF op = "step_publish_protobuf_message"
  THEN [ret |-> "ack_dict", value |-> AckDict(ack)]
  ELSE [ret |-> "None"]

NoResponse == [tag |-> "none"]

AckOff ==
  /\ ack_op = "none"
  /\ ack_pc = "idle"
  /\ ack_resp = NoResponse
  /\ ack_out = <<>>
  /\ ack_ret = [ret |-> "none"]

\* the function builds and serializes its message and posts it
AckCall(op) ==
  /\ ack_pc \in {"idle", "done", "raised"}
  /\ ack_op' = op
  /\ ack_pc' = "posting"
  /\ ack_resp' = NoResponse
  /\ ack_out' = <<>>
  /\ ack_ret' = [ret |-> "none"]
  /\ UNCHANGED <<sessionVars, metricsVars, codecVars, uatVars>>

\* the POST ends: raise_for_status, ParseFromString, the prints and the return
AckRespond(r) ==
  /\ ack_pc = "posting"
  /\ ack_resp' = r
  /\ IF r.tag = "http" /\ r.status = 200 /\ r.body.wf
     THEN /\ ack_pc' = "done"
          /\ ack_out' = AckLines(ack_op, r.body)
          /\ ack_ret' = AckReturn(ack_op, r.body)
     ELSE /\ ack_pc' = "raised"
          /\ ack_out' = <<>>
          /\ ack_ret' = [ret |-> "raised",
                         exc |-> CASE r.tag = "ConnectionError" -> "ConnectionError"
                                   [] r.status # 200 -> "HTTPError"
                                   [] OTHER -> "DecodeError"]
  /\ UNCHANGED ack_op
  /\ UNCHANGED <<sessionVars, metricsVars, codecVars, uatVars>>

AckNext ==
  \/ \E op \in PublishOps : AckCall(op)
  \/ \E r \in HttpResponses : AckRespond(r)

\* ----------------------------------------------------------- StreamFrame codec
\* A serialized protobuf message is a sequence of <<field, value>> entries; a scalar
\* field holding its default value is not written, a sub-message is written when set.
Opt(cond, entry) == IF cond THEN <<entry>> ELSE <<>>

HasEntry(w, name) == \E i \in 1..Len(w) : w[i][1] = name

\* the value of a field: its last entry on the wire, else the default
FieldOf(w, name, default) ==
  IF HasEntry(w, name)
  THEN w[CHOOSE i \in 1..Len(w) : w[i][1] = name /\ \A j \in (i + 1)..Len(w) : w[j][1] # name][2]
  ELSE default

Kinds == {"CONTROL", "MESSAGE", "OTHER"}

NoTimestamp == [seconds |-> 0, nanos |-> 0]
Timestamps == {[seconds |-> 1, nanos |-> 0]}
DataValues == {d \in UNION {[1..n -> {120}] : n \in 0..MaxSize} : TRUE}

\* unset sub-messages read as their defaults
EmptyControl == [type |-> "ZERO", message |-> ""]
EmptyMessage ==
  [subject |-> "", sequence |-> 0, size_bytes |-> 0, has_timestamp |-> FALSE,
   timestamp |-> NoTimestamp, consumer |-> "", data |-> <<>>]

ControlMessages == [type : ControlTypes, message : {""} \cup ControlTexts]
StreamMessages ==
  [subject : {"events.test"}, sequence : 1..MaxSeq, size_bytes : 0..MaxSize,
   has_timestamp : {TRUE}, timestamp : Timestamps, consumer : {"", "c1"}, data : DataValues]
    \cup
  [subject : {"events.test"}, sequence : 1..MaxSeq, size_bytes : 0..MaxSize,
   has_timestamp : {FALSE}, timestamp : {NoTimestamp}, consumer : {"", "c1"}, data : DataValues]

\* the frames the gateway sends: the variant that is set is the one `type` names
WellFormedFrames ==
  [type : {"CONTROL"}, payload : {"control"}, control : ControlMessages, message : {EmptyMessage}]
    \cup
  [type : {"MESSAGE"}, payload : {"message"}, control : {EmptyControl}, message : StreamMessages]

NoFrame == [type |-> "none", payload |-> "none", control |-> EmptyControl, message |-> EmptyMessage]

\* SerializeToString
EncodeControl(c) ==
  Opt(c.type # "ZERO", <<"type", c.type>>) \o Opt(c.message # "", <<"message", c.message>>)

EncodeMessage(m) ==
  Opt(m.subject # "", <<"subject", m.subject>>)
    \o Opt(m.sequence # 0, <<"sequence", m.sequence>>)
    \o Opt(m.size_bytes # 0, <<"size_bytes", m.size_bytes>>)
    \o Opt(m.has_timestamp, <<"timestamp", m.timestamp>>)
    \o Opt(m.consumer # "", <<"consumer", m.consumer>>)
    \o Opt(m.data # <<>>, <<"data", m.data>>)

Encode(f) ==
  Opt(f.type # "ZERO", <<"type", f.type>>)
    \o Opt(f.payload = "control", <<"control", EncodeControl(f.control)>>)
    \o Opt(f.payload = "message", <<"message", EncodeMessage(f.message)>>)

\* the end of the bytes is missing
Truncated(w) == Append(w, <<"truncated", 0>>)

\* ParseFromString of the sub-messages
DecodeControl(w) ==
  [type |-> FieldOf(w, "type", "ZERO"), message |-> FieldOf(w, "message", "")]

DecodeMessageAlwaysTimestamp(w) ==
  [subject |-> FieldOf(w, "subject", ""),
   sequence |-> FieldOf(w, "sequence", 0),
   size_bytes |-> FieldOf(w, "size_bytes", 0),
   has_timestamp |-> TRUE,
   timestamp |-> FieldOf(w, "timestamp", NoTimestamp),
   consumer |-> FieldOf(w, "consumer", ""),
   data |-> FieldOf(w, "data", <<>>)]
DecodeMessage(w) ==
  [subject |-> FieldOf(w, "subject", ""),
   sequence |-> FieldOf(w, "sequence", 0),
   size_bytes |-> FieldOf(w, "size_bytes", 0),
   has_timestamp |-> HasEntry(w, "timestamp"),
   timestamp |-> FieldOf(w, "timestamp", NoTimestamp),
   consumer |-> FieldOf(w, "consumer", ""),
   data |-> FieldOf(w, "data", <<>>)]

\* a parser that holds size_bytes against the length of data
DecodeCheckingSize(w) ==
  IF HasEntry(w, "truncated") THEN [tag |-> "DecodeError"]
  ELSE IF HasEntry(w, "message")
          /\ DecodeMessage(FieldOf(w, "message", <<>>)).size_bytes
               # Len(DecodeMessage(FieldOf(w, "message", <<>>)).data)
  THEN [tag |-> "DecodeError"]
  ELSE [tag |-> "frame",
        frame |-> [type |-> FieldOf(w, "type", "ZERO"),
                   payload |-> CASE HasEntry(w, "control") -> "control"
                                 [] HasEntry(w, "message") -> "message"
                                 [] OTHER -> "none",
                   control |-> IF HasEntry(w, "control")
                               THEN DecodeControl(FieldOf(w, "control", <<>>)) ELSE EmptyControl,
                   message |-> IF HasEntry(w, "message")
                               THEN DecodeMessage(FieldOf(w, "message", <<>>)) ELSE EmptyMessage]]

\* frame.ParseFromString(frame_bytes): each field is read on its own; bytes that end
\* early raise DecodeError; `type` is not compared with the sub-message that is set
Decode(w) ==
  IF HasEntry(w, "truncated") THEN [tag |-> "DecodeError"]
  ELSE [tag |-> "frame",
        frame |-> [type |-> FieldOf(w, "type", "ZERO"),
                   payload |-> CASE HasEntry(w, "control") -> "control"
                                 [] HasEntry(w, "message") -> "message"
                                 [] OTHER -> "none",
                   control |-> IF HasEntry(w, "control")
                               THEN DecodeControl(FieldOf(w, "control", <<>>)) ELSE EmptyControl,
                   message |-> IF HasEntry(w, "message")
                               THEN DecodeMessage(FieldOf(w, "message", <<>>)) ELSE EmptyMessage]]

\* `if frame.type == CONTROL: ... elif frame.type == MESSAGE: ...` of the receive loops
Dispatch(frame) ==
  CASE frame.type = "CONTROL" -> "control"
    [] frame.type = "MESSAGE" -> "message"
    [] OTHER -> "none"

\* _handle_stream_message: the lines it prints; size_bytes is printed as declared, the
\* data is printed when it is not empty (its decoding is wrapped in a bare except)
StreamMessageLines(message) ==
  <<[line |-> "Subject", value |-> message.subject],
    [line |-> "Sequence", value |-> message.sequence],
    [line |-> "Size", value |-> message.size_bytes]>>
    \o Opt(message.has_timestamp, [line |-> "Time", value |-> message.timestamp])
    \o Opt(message.consumer # "", [line |-> "Consumer", value |-> message.consumer])
    \o Opt(message.data # <<>>, [line |-> "Data", value |-> message.data])

\* _handle_control_message
ControlLines(control) ==
  <<[line |-> "Control", value |-> <<control.type, control.message>>]>>

\* bytes no well-formed frame serializes to: `type` names the variant that is not
\* set, `type` is neither CONTROL nor MESSAGE, or the bytes end early
MismatchedWires ==
  {<<<<"type", "MESSAGE">>, <<"control", EncodeControl(c)>>>> : c \in ControlMessages}
    \cup {<<<<"type", "CONTROL">>, <<"message", EncodeMessage(m)>>>> : m \in StreamMessages}

UnknownKindWires ==
  {<<<<"type", "OTHER">>, <<"control", EncodeControl(c)>>>> : c \in ControlMessages}

TruncatedWires == {Truncated(Encode(f)) : f \in WellFormedFrames}

NoWire == <<>>
NoDecode == [tag |-> "none"]

CodecOff ==
  /\ codec_pc = "off" /\ codec_in = NoFrame /\ codec_wire = NoWire
  /\ codec_out = NoDecode /\ codec_handler = "none"
  /\ codec_count = 0 /\ codec_lines = <<>>

\* the gateway is about to send a frame, or other bytes are about to arrive
CodecInit ==
  /\ codec_out = NoDecode /\ codec_handler = "none"
  /\ codec_count = 0 /\ codec_lines = <<>>
  /\ \/ codec_pc = "frame" /\ codec_in \in WellFormedFrames /\ codec_wire = NoWire
     \/ /\ codec_pc = "wire" /\ codec_in = NoFrame
        /\ codec_wire \in MismatchedWires \cup UnknownKindWires \cup TruncatedWires

CodecEncode ==
  /\ codec_pc = "frame"
  /\ codec_wire' = Encode(codec_in)
  /\ codec_pc' = "wire"
  /\ UNCHANGED <<codec_in, codec_out, codec_handler, codec_count, codec_lines>>
  /\ UNCHANGED <<sessionVars, metricsVars, ackVars, uatVars>>

\* `frame.ParseFromString(frame_bytes)`
CodecDecode ==
  /\ codec_pc = "wire"
  /\ codec_out' = Decode(codec_wire)
  /\ codec_pc' = "decoded"
  /\ UNCHANGED <<codec_in, codec_wire, codec_handler, codec_count, codec_lines>>
  /\ UNCHANGED <<sessionVars, metricsVars, ackVars, uatVars>>

\* the if/elif on frame.type; a DecodeError has left the loop before it
CodecDispatch ==
  /\ codec_pc = "decoded"
  /\ codec_handler' = IF codec_out.tag = "frame" THEN Dispatch(codec_out.frame) ELSE "none"
  /\ codec_count' = IF codec_out.tag = "frame" /\ Dispatch(codec_out.frame) = "message"
                    THEN codec_count + 1 ELSE codec_count
  /\ codec_lines' = IF codec_out.tag = "frame"
                    THEN CASE Dispatch(codec_out.frame) = "message" ->
                                StreamMessageLines(codec_out.frame.message)
                           [] Dispatch(codec_out.frame) = "control" ->
                                ControlLines(codec_out.frame.control)
                           [] OTHER -> <<>>
                    ELSE <<>>
  /\ codec_pc' = "dispatched"
  /\ UNCHANGED <<codec_in, codec_wire, codec_out>>
  /\ UNCHANGED <<sessionVars, metricsVars, ackVars, uatVars>>

CodecNext == CodecEncode \/ CodecDecode \/ CodecDispatch

\* ------------------------------------------------------------- consumer UAT
\* the run_step calls of main, in the order of the source
Steps ==
  <<"Gateway Health", "Verify Stream Exists", "Templates", "Create Consumer",
    "List Consumers", "Get Consumer", "Publish Messages", "Publish Protobuf Message",
    "Fetch via Durable Consumer", "Peek Messages", "Consumer Health",
    "Consumer Metrics History", "Reset Consumer", "Fetch After Reset", "Delete Consumer",
    "Verify Deletion">>

StepIndex(name) == CHOOSE i \in 1..Len(Steps) : Steps[i] = name

\* what one Session.request can end in: a 2xx answer of a healthy or an unhealthy
\* gateway, an answer that raise_for_status turns into HTTPError, or an exception of
\* requests that is not an HTTPError (no connection, timeout)
Responses == {"200", "200_unhealthy", "404", "500", "ConnectionError"}

\* the answers the server can give to the request of a step
ResponsesTo(name, consumer) ==
  CASE name = "Gateway Health" -> Responses
    [] name = "Verify Deletion" ->
         (IF consumer THEN {"200"} ELSE {"404"}) \cup {"500", "ConnectionError"}
    [] OTHER -> Responses \ {"200_unhealthy"}

\* request_json / request_binary: the payload is returned, or raise_for_status raises
RequestEnd(response) ==
  CASE response \in {"200", "200_unhealthy"} -> "returned"
    [] response \in {"404", "500"} -> "HTTPError"
    [] OTHER -> "Exception"

\* step_verify_deletion: a 404 is the success of the step, an answer without error is
\* a RuntimeError
VerifyDeletionEnd(response) ==
  CASE response = "404" -> "returned"
    [] response = "200" -> "Exception"
    [] OTHER -> RequestEnd(response)

\* how the function of a step ends, by the answer to its (last) request
StepEnd(name, response) ==
  IF name = "Verify Deletion" THEN VerifyDeletionEnd(response) ELSE RequestEnd(response)

\* run_step appends the StepResult after func() has returned
RecordedAfterAttempt(results, name, end) == Append(results, name)
RecordedAfter(results, name, end) ==
  IF end = "returned" THEN Append(results, name) ELSE results

\* main: the first two steps turn an HTTPError into sys.exit(1), and an answer of the
\* health step that is not healthy ends the flow after the step was recorded; every
\* other exception leaves main
AfterStep(name, response, end) ==
  CASE end = "HTTPError" /\ name \in {"Gateway Health", "Verify Stream Exists"} -> "exit_1"
    [] end # "returned" -> "raised"
    [] name = "Gateway Health" /\ response = "200_unhealthy" -> "exit_1"
    [] name = "Verify Deletion" -> "complete"
    [] OTHER -> "running"

\* what the server holds after the request of a step was answered: a created consumer
\* exists, a deleted one does not; a request that got no answer may have been carried
\* out or not
ConsumerAfter(name, response, consumer) ==
  CASE name = "Create Consumer" /\ response = "200" -> {TRUE}
    [] name = "Delete Consumer" /\ response = "200" -> {FALSE}
    [] name \in {"Create Consumer", "Delete Consumer"} /\ response = "ConnectionError" -> BOOLEAN
    [] OTHER -> {consumer}

\* print(f"<- {resp.status_code}"): nothing is printed when no answer came
StatusPrinted(response, status) ==
  CASE response \in {"200", "200_unhealthy"} -> "200"
    [] response \in {"404", "500"} -> response
    [] OTHER -> status

\* write_log: one entry per StepResult
WriteLog(results) == results

UatOff ==
  /\ uat_pc = "off" /\ uat_ran = <<>> /\ uat_idx = 0 /\ STEP_RESULTS = <<>>
  /\ PUBLISH_COUNT = 0 /\ uat_log = "none" /\ uat_status = "none" /\ uat_consumer = FALSE

\* the module is loaded: STEP_RESULTS is empty, the consumer name is fresh
UatInit ==
  /\ uat_pc = "running" /\ uat_ran = <<>> /\ uat_idx = 0 /\ STEP_RESULTS = <<>>
  /\ PUBLISH_COUNT \in 1..MaxPublishCount
  /\ uat_log = "none" /\ uat_status = "none" /\ uat_consumer = FALSE

NextStep == Steps[Len(STEP_RESULTS) + 1]

\* one run_step call of main (every step but "Publish Messages"), with what main does
\* with its end; after the last step main writes the log
RunStep(response) ==
  /\ uat_pc = "running"
  /\ NextStep # "Publish Messages"
  /\ response \in ResponsesTo(NextStep, uat_consumer)
  /\ LET end == StepEnd(NextStep, response)
         after == AfterStep(NextStep, response, end)
     IN /\ uat_ran' = Append(uat_ran, NextStep)
        /\ STEP_RESULTS' = RecordedAfter(STEP_RESULTS, NextStep, end)
        /\ uat_pc' = after
        /\ uat_log' = IF after = "complete" THEN WriteLog(STEP_RESULTS') ELSE uat_log
        /\ uat_consumer' \in ConsumerAfter(NextStep, response, uat_consumer)
        /\ uat_status' = StatusPrinted(response, uat_status)
  /\ UNCHANGED <<uat_idx, PUBLISH_COUNT>>
  /\ UNCHANGED <<sessionVars, metricsVars, ackVars, codecVars>>

\* run_step("Publish Messages"): one request of the loop of step_publish_messages; the
\* step is recorded when the last of the PUBLISH_COUNT requests has returned
PublishRequest(response) ==
  /\ uat_pc = "running"
  /\ NextStep = "Publish Messages"
  /\ response \in ResponsesTo(NextStep, uat_consumer)
  /\ LET end == StepEnd(NextStep, response)
         last == uat_idx + 1 = PUBLISH_COUNT
     IN /\ uat_ran' = IF uat_idx = 0 THEN Append(uat_ran, NextStep) ELSE uat_ran
        /\ uat_idx' = uat_idx + 1
        /\ STEP_RESULTS' = IF end = "returned" /\ ~last
                           THEN STEP_RESULTS
                           ELSE RecordedAfter(STEP_RESULTS, NextStep, end)
        /\ uat_pc' = AfterStep(NextStep, response, end)
        /\ uat_status' = StatusPrinted(response, uat_status)
  /\ UNCHANGED <<PUBLISH_COUNT, uat_log, uat_consumer>>
  /\ UNCHANGED <<sessionVars, metricsVars, ackVars, codecVars>>

UatNext ==
  \/ \E response \in Responses : RunStep(response)
  \/ \E response \in Responses : PublishRequest(response)

\* ------------------------------------------------- history of the session
IsFrame(i) == frames[i].tag = "frame"

IsControl(i, t) == IsFrame(i) /\ frames[i].frame.kind = "CONTROL" /\ frames[i].frame.type = t

IsMessage(i) == IsFrame(i) /\ frames[i].frame.kind = "MESSAGE"

MessagesUpTo(k) == Cardinality({i \in 1..k : IsMessage(i)})

Printed(e) == \E i \in 1..Len(out) : out[i].ev = e

Bounded == fn \in {"ephemeral", "durable"}

\* ------------------------------------------------------------------ claims

\* C1: once a session in STREAMING has received a CLOSE control frame it waits
\* for no further frame (it is on its way to DRAINING and CLOSED) and no MESSAGE
\* frame that arrives after the CLOSE is handed to the message handler.
C1_CloseStopsDelivery ==
  \A i \in 1..Len(frames) :
    IsControl(i, "CLOSE") => pc[sid] # "recv" /\ Len(delivered) = MessagesUpTo(i)

\* C2 (as stated): after a receive wait of stream_with_timeout has expired the
\* session is still STREAMING.
C2_TimeoutKeepsStreaming ==
  \A i \in 1..Len(frames) : frames[i].tag = "TimeoutError" => State(sid) = "STREAMING"

\* C2 (amended): the expiry of a receive wait of stream_with_timeout is the last
\* receive of the session: the session prints that the timeout was reached and
\* is DRAINING or CLOSED, never STREAMING again and never ERRORED.
C2_TimeoutEndsSession ==
  \A i \in 1..Len(frames) :
    frames[i].tag = "TimeoutError" =>
      /\ fn = "timeout"
      /\ i = Len(frames)
      /\ State(sid) \in {"DRAINING", "CLOSED"}
      /\ Printed("timeout_reached")

C2_Witness ==
  /\ sid > 0
  /\ Len(frames) = 2
  /\ IsMessage(1)
  /\ frames[2].tag = "TimeoutError"
  /\ State(sid) = "CLOSED"

C4_RejectionReturned ==
  (ack_pc = "done" /\ ~ack_resp.body.published) =>
    /\ ack_ret.ret = "ack_dict"
    /\ ack_ret.value.published = FALSE
    /\ \A i \in 1..Len(ack_out) : ack_out[i].ev # "published_successfully"

C7_ConnectionClosedErrors ==
  \A i \in 1..Len(frames) : frames[i].tag = "ConnectionClosed" => State(sid) = "ERRORED"

\* C8: an ERROR control frame received in STREAMING leaves the session ERRORED (no
\* further receive) with the frame's text printed as it came.
C8_ErrorFrameErrors ==
  \A i \in 1..Len(frames) :
    IsControl(i, "ERROR") =>
      /\ State(sid) = "ERRORED"
      /\ \E j \in 1..Len(out) : out[j].ev = "control" /\ out[j].message = frames[i].frame.message

\* C9: in a max_messages-bounded session the counter is the number of MESSAGE
\* frames received (CONTROL and other frames do not count), each was handled once,
\* a receive is awaited only below the cap, the handler ran at most max_messages
\* times, and at the cap the loop test leaves STREAMING for DRAINING.
C9_Counting ==
  (sid > 0 /\ Bounded) =>
    /\ message_count = MessagesUpTo(Len(frames))
    /\ Len(delivered) = message_count
    /\ \A k \in 1..Len(delivered) :
         \E i \in 1..Len(frames) : IsMessage(i) /\ MessagesUpTo(i) = k /\ delivered[k] = frames[i].frame
    /\ Len(delivered) <= max_messages
    /\ pc[sid] = "recv" => message_count < max_messages

C9_BoundedHandling ==
  [][C9_Counting' /\
     ((sid > 0 /\ Bounded /\ pc[sid] = "loop_head" /\ message_count >= max_messages)
        => State(sid)' = "DRAINING")]_vars

C9_Witness ==
  /\ sid > 0 /\ Bounded
  /\ max_messages = 2
  /\ Len(frames) = 3
  /\ IsControl(1, "KEEPALIVE") /\ IsMessage(2) /\ IsMessage(3)
  /\ message_count = 2
  /\ State(sid) = "DRAINING"

\* C10: the state of a session changes only along the lifecycle edges; CLOSED and
\* ERRORED are left by no step.
Edges ==
  {<<"IDLE", "CONNECTING">>, <<"CONNECTING", "STREAMING">>, <<"CONNECTING", "ERRORED">>,
   <<"STREAMING", "DRAINING">>, <<"STREAMING", "ERRORED">>, <<"DRAINING", "CLOSED">>}

C10_LifecycleEdges ==
  [][\A i \in Sessions : State(i)' # State(i) => <<State(i), State(i)'>> \in Edges]_vars

C10_Witness ==
  /\ sid = 2
  /\ State(1) \in {"CLOSED", "ERRORED"}
  /\ State(2) = "STREAMING"
  /\ Len(frames) > 0


\* the index in frames of the k-th MESSAGE frame received
KthMessage(k) == CHOOSE i \in 1..Len(frames) : IsMessage(i) /\ MessagesUpTo(i) = k

\* C11: within a session the MESSAGE frames are handled in exactly the order in which
\* they were received: the k-th frame handled is the k-th MESSAGE frame received, none
\* is dropped, held back or reordered, and the printed message lines follow that order.
C11_DeliveryOrder ==
  sid > 0 =>
    /\ Len(delivered) = MessagesUpTo(Len(frames))
    /\ \A k \in 1..Len(delivered) : delivered[k] = frames[KthMessage(k)].frame
    /\ \A i, j \in 1..Len(out) :
         (i < j /\ out[i].ev \in {"message", "message_line"} /\ out[j].ev \in {"message", "message_line"}) =>
           \E a, b \in 1..Len(delivered) :
             a < b /\ out[i].sequence = delivered[a].sequence /\ out[j].sequence = delivered[b].sequence

C11_Witness ==
  /\ sid > 0
  /\ Len(frames) = 3
  /\ Len(delivered) = 2
  /\ IsControl(2, "KEEPALIVE")
  /\ delivered[1].sequence = 2 /\ delivered[2].sequence = 1

\* a call of publish_message begins
PubAttemptBegins == pub_pc = "loop" /\ pub_pc' = "await_publish"

\* C12: a publish has three failure outcomes, each distinguishable from the others and
\* from a completed publish: an expired wait is reported as a timeout, a failed send as
\* a transport failure, anything else as a protocol failure, and none of them ends as a
\* successful publish ends.
C12_FailureOutcomesDistinct ==
  /\ pub_last.outcome \in {"asyncio.TimeoutError", "nats.errors.TimeoutError"} =>
       /\ pub_last.line = "Publish timeout"
       /\ pub_last.result # PublishEnd("ok").result
  /\ pub_last.outcome = "ConnectionClosedError" =>
       /\ pub_last.line = "NATS connection closed"
       /\ pub_last.result # PublishEnd("ok").result
  /\ pub_last.outcome = "Exception" =>
       /\ pub_last.line = "Publish error"
       /\ pub_last.result # PublishEnd("ok").result

\* C13: a further attempt follows a failure only when the failure was of the
\* ConnectionClosed class; any other failure of the operation is surfaced to the caller
\* at once and no attempt follows it.
C13_OnlyTransportFailuresRetried ==
  [][ /\ PubAttemptBegins => pub_last.outcome \in {"none", "ok", "ConnectionClosedError"}
      /\ pub_last'.outcome = "Exception" => pub_last'.result = "raised" ]_vars

\* C14: the operation is executed at most max_attempts times: after max_attempts failed
\* attempts in a row no further attempt begins.
C14_AttemptsBounded ==
  [][ PubAttemptBegins => pub_streak < MaxAttempts ]_vars


\* C15: every well-formed frame (either variant, every control type, with or without
\* timestamp and consumer) is read back from its serialized bytes as the same frame.
C15_RoundTrip ==
  (codec_pc \in {"decoded", "dispatched"} /\ codec_in \in WellFormedFrames) =>
    codec_out = [tag |-> "frame", frame |-> codec_in]

C15_Witness ==
  /\ codec_pc = "decoded"
  /\ codec_in.type = "MESSAGE"
  /\ ~codec_in.message.has_timestamp /\ codec_in.message.consumer = ""
  /\ codec_in.message.size_bytes = 0 /\ codec_in.message.data # <<>>
  /\ codec_out.tag = "frame"

\* C16: bytes whose kind is MESSAGE while the control variant is set, or whose kind is
\* CONTROL while the message variant is set, decode to DecodeError, and the receive
\* path calls neither handler for them.
C16_MismatchRejected ==
  (codec_pc \in {"decoded", "dispatched"} /\ codec_wire \in MismatchedWires) =>
    /\ codec_out.tag = "DecodeError"
    /\ codec_handler = "none"

\* C17: a frame whose kind is neither CONTROL nor MESSAGE is reported as a decode
\* error: an error is printed for it, it is not passed over in silence.
C17_UnknownKindReported ==
  \A i \in 1..Len(frames) :
    (IsFrame(i) /\ frames[i].frame.kind = "OTHER") =>
      \E k \in 1..Len(out) : out[k].ev = "error"

\* C18: a frame that fails to decode ends only the read it arrived in: the session is
\* still STREAMING after it.
C18_DecodeErrorKeepsStreaming ==
  [][ (Len(frames') > Len(frames) /\ frames'[Len(frames')].tag = "DecodeError") =>
        State(sid)' = "STREAMING" ]_vars

\* the caller has cancelled the current session during a receive wait
Cancelled == sid > 0 /\ \E i \in 1..Len(frames) : frames[i].tag = "CancelledError"

\* C19: when the caller closes a session whose receive wait is in flight, the wait ends
\* and the session goes to DRAINING and from there to CLOSED: it is not left in
\* STREAMING, it does not end ERRORED, and what it printed differs from what a receive
\* timeout prints.
C19_CloseUnblocksReceive ==
  /\ [](Cancelled =>
          /\ State(sid) \in {"DRAINING", "CLOSED"}
          /\ \A k \in 1..Len(out) : out[k].ev \notin {"timeout_reached", "error"})
  /\ (Cancelled ~> (sid > 0 /\ State(sid) = "CLOSED"))

C19_Witness ==
  /\ Cancelled
  /\ State(sid) = "CLOSED"
  /\ fn = "ephemeral"
  /\ Len(frames) = 2 /\ IsMessage(1)
  /\ message_count < max_messages

\* C20: a shutdown step that fails (drain, or close of the connection) is logged and
\* goes no further: close() never ends by raising, so the client still reaches its
\* closed state and the steps after the failed one are still attempted.
C20_ShutdownFailuresContained ==
  /\ pub_pc # "raised"
  /\ sub_pc["run"] # "raised"

\* C21: a stream message whose size_bytes differs from the length of its data is decoded
\* and handled exactly as the message with the matching size_bytes is: no error, the
\* message handler is called, the counter rises by one, and the printed lines are the
\* same except for the size that is printed.
C21_SizeBytesAdvisory ==
  (codec_pc = "dispatched" /\ codec_in.type = "MESSAGE") =>
    LET twin == StreamMessageLines([codec_in.message EXCEPT !.size_bytes = Len(codec_in.message.data)])
    IN /\ codec_out.tag = "frame"
       /\ codec_handler = "message"
       /\ codec_count = 1
       /\ Len(codec_lines) = Len(twin)
       /\ \A k \in 1..Len(twin) : twin[k].line # "Size" => codec_lines[k] = twin[k]
       /\ codec_lines[3] = [line |-> "Size", value |-> codec_in.message.size_bytes]

C21_Witness ==
  /\ codec_pc = "dispatched"
  /\ codec_in.type = "MESSAGE"
  /\ codec_in.message.size_bytes = 0 /\ Len(codec_in.message.data) = 1
  /\ codec_handler = "message"

\* C22: a KEEPALIVE or SUBSCRIBE_ACK control frame received in STREAMING leaves the
\* session in STREAMING and leaves the message counter, the handled messages and
\* max_messages as they were; the frame is passed to the control handler, which prints
\* it; and STREAMING is entered from CONNECTING before any frame has been received.
C22_KeepaliveNoEffect ==
  [][ /\ ( /\ Len(frames') = Len(frames) + 1
           /\ frames'[Len(frames')].tag = "frame"
           /\ frames'[Len(frames')].frame.kind = "CONTROL"
           /\ frames'[Len(frames')].frame.type \in {"KEEPALIVE", "SUBSCRIBE_ACK"} ) =>
           /\ State(sid) = "STREAMING" /\ State(sid)' = "STREAMING"
           /\ message_count' = message_count
           /\ delivered' = delivered
           /\ max_messages' = max_messages
           /\ out' = Append(out, HandleControlMessage(frames'[Len(frames')].frame))
      /\ (sid > 0 /\ sid' = sid /\ State(sid) = "CONNECTING" /\ State(sid)' = "STREAMING") =>
           frames' = <<>> ]_vars

C22_Witness ==
  /\ sid > 0
  /\ State(sid) = "STREAMING"
  /\ Len(frames) = 3
  /\ IsMessage(1) /\ IsControl(2, "KEEPALIVE") /\ IsControl(3, "SUBSCRIBE_ACK")
  /\ message_count = 1 /\ max_messages = 2

\* C23: whatever the sequence numbers of the MESSAGE frames (gaps, repeats, values out
\* of order), every MESSAGE frame received is handled, and the session is still
\* STREAMING after it: no sequence value makes it ERRORED.
C23_SequenceGapsTolerated ==
  [][ ( /\ Len(frames') = Len(frames) + 1
        /\ frames'[Len(frames')].tag = "frame"
        /\ frames'[Len(frames')].frame.kind = "MESSAGE" ) =>
        /\ State(sid)' = "STREAMING"
        /\ delivered' = Append(delivered, frames'[Len(frames')].frame)
        /\ message_count' = message_count + 1 ]_vars

\* a gap, then a repeat
C23_Witness ==
  /\ sid > 0
  /\ State(sid) = "STREAMING"
  /\ Len(delivered) = 3
  /\ delivered[1].sequence = 1 /\ delivered[2].sequence = 3 /\ delivered[3].sequence = 3

\* C24: stream_with_timeout disconnects timeout_seconds after the connection was made,
\* as it announces: whatever frames arrive and whenever, the session is no longer
\* STREAMING once more than timeout_seconds have passed.
C24_DisconnectsAfterTimeout ==
  (sid > 0 /\ fn = "timeout" /\ State(sid) = "STREAMING") => elapsed <= TimeoutTicks

\* C25: within one run of the publisher no two publish attempts, whether they succeed or
\* fail and whether or not a reconnect wait lies between them, carry the same message_id
\* or the same sequence number, and the sequence numbers of successive attempts rise by
\* exactly 1.
C25_MessageIdUnique ==
  /\ \A i, j \in 1..Len(pub_sent) :
       i # j => /\ pub_sent[i].message_id # pub_sent[j].message_id
                /\ pub_sent[i].sequence # pub_sent[j].sequence
  /\ \A i \in 1..(Len(pub_sent) - 1) : pub_sent[i + 1].sequence = pub_sent[i].sequence + 1

\* three attempts, the last after a reconnect wait that followed a failed one
C25_Witness ==
  /\ Len(pub_sent) = 3
  /\ pub_pc = "await_publish"
  /\ pub_last.outcome = "ConnectionClosedError"
  /\ pub_error_count = 2

\* C26: every call of publish_message raises message_count by exactly 1 before the send
\* is attempted and leaves error_count alone; when the send ends, error_count rises by 1
\* exactly when it failed (timeout, closed connection or any other exception) and
\* message_count stays; so 0 <= error_count <= message_count always.
C26_PublisherCounters ==
  /\ [](0 <= pub_error_count /\ pub_error_count <= pub_message_count)
  /\ [][ /\ PubAttemptBegins =>
              /\ pub_message_count' = pub_message_count + 1
              /\ pub_error_count' = pub_error_count
         /\ (pub_pc = "await_publish" /\ pub_pc' \in {"sleep_interval", "sleep_reconnect", "sleep_unexpected"}) =>
              /\ pub_message_count' = pub_message_count
              /\ pub_error_count' = pub_error_count + (IF pub_last'.outcome = "ok" THEN 0 ELSE 1)
         /\ (pub_pc # "await_publish" /\ pub_pc # "loop") =>
              /\ pub_message_count' = pub_message_count
              /\ pub_error_count' = pub_error_count ]_vars

C26_Witness ==
  /\ pub_message_count = 3
  /\ pub_error_count = 2
  /\ pub_last.outcome = "asyncio.TimeoutError"
  /\ pub_pc = "sleep_interval"

\* C27: in the subscriber, whenever the handler is between two messages, message_count
\* equals the number of messages processed successfully plus error_count, and
\* total_latency_ms grows only by the latency of a message that is processed
\* successfully (never by one that ends in an except clause).
C27_LatencyOnlyOnSuccess ==
  [][ /\ sub_pc'["handler"] = "wait" =>
           sub_message_count' = (issued' - issued_err') + sub_error_count'
      /\ sub_total_latency_ms' # sub_total_latency_ms => sub_pc'["handler"] # "except" ]_vars

PubSleeps == {"sleep_interval", "sleep_reconnect", "sleep_unexpected"}

\* C28: publish_loop is never ended by a publish failure: whatever the outcome of a
\* publish, the loop goes to one of its waits and from the wait back to the loop head,
\* where the next attempt begins, however many attempts failed before; the loop is left
\* only by the interrupt, and that step is the beginning of close(): the metrics are
\* logged, then drain is awaited, and the connection is closed only after drain.
C28_LoopLeftOnlyByInterrupt ==
  [][ /\ (pub_pc = "await_publish" /\ pub_pc' # "await_publish") => pub_pc' \in PubSleeps \cup {"drain"}
      /\ (pub_pc \in PubSleeps /\ pub_pc' # pub_pc) => pub_pc' \in {"loop", "drain"}
      /\ (pub_pc = "loop" /\ pub_pc' # "loop") => pub_pc' \in {"await_publish", "drain"}
      /\ (pub_pc # "drain" /\ pub_pc' = "drain") =>
           /\ pub_pc \in PubSleeps \cup {"loop", "await_publish"}
           /\ snap'.who = "publisher"
           /\ snap'.log.total_messages = pub_message_count
           /\ snap'.log.total_errors = pub_error_count
      /\ (pub_pc # "nc_close" /\ pub_pc' = "nc_close") => pub_pc = "drain"
      /\ (pub_pc # "closed" /\ pub_pc' = "closed") => pub_pc = "nc_close" ]_vars

\* a new attempt begins after MaxAttempts failed ones in a row, the last of them a
\* closed connection followed by the reconnect wait
C28_Witness ==
  /\ pub_pc = "await_publish"
  /\ pub_streak >= MaxAttempts
  /\ pub_last.result = "raised"
  /\ pub_error_count = pub_streak

BoundedFunctions == {"ephemeral", "durable"}

UatFailed ==
  /\ uat_pc \in {"raised", "exit_1"}
  /\ Len(uat_ran) = Len(STEP_RESULTS) + 1

UatFailedStep == StepIndex(uat_ran[Len(uat_ran)])

\* the steps are called in the order of Steps, and the records are the names of the
\* steps whose function returned: every step called but, at most, the last one
UatOrderAndRecords ==
  /\ \A i \in 1..Len(uat_ran) : uat_ran[i] = Steps[i]
  /\ Len(uat_ran) - Len(STEP_RESULTS) \in {0, 1}
  /\ STEP_RESULTS = SubSeq(uat_ran, 1, Len(STEP_RESULTS))
  /\ (uat_pc = "raised" \/ (uat_pc = "exit_1" /\ uat_status # "200")) =>
       Len(uat_ran) = Len(STEP_RESULTS) + 1
  /\ Len(uat_ran) = Len(STEP_RESULTS) + 1 =>
       \/ uat_pc \in {"raised", "exit_1"}
       \/ uat_ran[Len(uat_ran)] = "Publish Messages" /\ uat_idx < PUBLISH_COUNT

\* C30 (as stated): the steps run in one fixed order and a step is recorded in
\* STEP_RESULTS only after it succeeded; when any step after "Create Consumer" fails, the
\* flow has stopped without having run "Delete Consumer" and without the step log, and
\* the consumer is still on the server.
C30_AnyFailureSkipsDelete ==
  /\ UatOrderAndRecords
  /\ (UatFailed /\ UatFailedStep > StepIndex("Create Consumer")) =>
       /\ \A i \in 1..Len(uat_ran) : uat_ran[i] # "Delete Consumer"
       /\ uat_log = "none"
       /\ uat_consumer

\* C30 (amended): the steps run in one fixed order and a step is recorded only after its
\* function returned; when a step after "Create Consumer" and before "Delete Consumer"
\* fails, the flow has stopped without having run "Delete Consumer" and without the step
\* log, and the consumer is still on the server; when "Delete Consumer" or "Verify
\* Deletion" fails, the flow has stopped without the step log but "Delete Consumer" was
\* run; the log is written only by a flow that completed all steps.
C30_FailureBeforeDeleteSkipsDelete ==
  /\ UatOrderAndRecords
  /\ ( /\ UatFailed
       /\ UatFailedStep > StepIndex("Create Consumer")
       /\ UatFailedStep < StepIndex("Delete Consumer") ) =>
       /\ \A i \in 1..Len(uat_ran) : uat_ran[i] # "Delete Consumer"
       /\ uat_log = "none"
       /\ uat_consumer
  /\ (UatFailed /\ UatFailedStep >= StepIndex("Delete Consumer")) =>
       /\ \E i \in 1..Len(uat_ran) : uat_ran[i] = "Delete Consumer"
       /\ uat_log = "none"
  /\ uat_log # "none" => (uat_pc = "complete" /\ uat_log = Steps /\ STEP_RESULTS = Steps)

\* "Reset Consumer" is answered with a 500: twelve records, no log, the consumer stays
C30_Witness ==
  /\ UatFailed
  /\ uat_ran[Len(uat_ran)] = "Reset Consumer"
  /\ uat_status = "500"
  /\ Len(STEP_RESULTS) = 12
  /\ uat_consumer /\ uat_log = "none"

\* ----------------------------------------------------------- specifications
\* the streaming sessions of one WebSocketClient
Init == SessionInit /\ MetricsOff /\ AckOff /\ CodecOff /\ UatOff

Spec == Init /\ [][SessionNext]_vars

\* one run of the publisher or of the subscriber
\* one caller of the protobuf publishing functions
\* leaving the `async with` block awaits the closing handshake, which websockets bounds
\* by its close timeout: a draining session does close
SpecLive == Init /\ [][SessionNext]_vars /\ WF_vars(Drain)

SpecAck == Init /\ [][AckNext]_vars

InitMetrics == SessionInit /\ MetricsInit /\ AckOff /\ CodecOff /\ UatOff

SpecMetrics == InitMetrics /\ [][MetricsNext]_vars

InitCodec == SessionInit /\ MetricsOff /\ AckOff /\ CodecInit /\ UatOff

SpecCodec == InitCodec /\ [][CodecNext]_vars

\* one run of the consumer UAT script
InitUat == SessionInit /\ MetricsOff /\ AckOff /\ CodecOff /\ UatInit

SpecUat == InitUat /\ [][UatNext]_vars

====
